---- MODULE Spec2Model ----
(***************************************************************************)
(* Object storage behind the PSA ITS port of zephyr_crypto_psa_stm32.      *)
(*                                                                         *)
(* Two build-time alternatives implement the same four entry points:       *)
(*   crypto_wrapper/src/storage_interface.c      the in-RAM slot table     *)
(*   crypto_wrapper/src/storage_interface_zfs.c  the layer over Zephyr ZMS *)
(* Both files define storage_set/get/get_info/remove; the definitions of   *)
(* the ZMS file carry the prefix zfs_ here.  Spec is the state machine of  *)
(* the RAM table, SpecZfs the one of the ZMS layer, SpecBoth gives the     *)
(* same calls to both, SpecRace runs two callers on the RAM table step by  *)
(* step.                                                                   *)
(*                                                                         *)
(* Byte buffers are sequences (C index i is element i+1).  A pointer       *)
(* argument is a record [null, buf]: NULL, or the caller's buffer.         *)
(***************************************************************************)
EXTENDS Integers, Sequences, FiniteSets, TLC

VARIABLES
    storage_table,  \* storage_interface.c: static storage_entry_t storage_table[]
    fs,             \* storage_interface_zfs.c: static struct zms_fs fs (the keyed log)
    pc,             \* the caller: "idle" before a call, "returned" holding its result
    last,           \* the call that returned: arguments, status, the caller's buffer after it
    before,         \* history: the table, the log and the objects when that call began
    objects,        \* history: per uid, the data of its latest successful set, absent
                    \* when none was made or a successful remove came after it
    thread,         \* concurrent callers of the RAM table: per caller its call, its
                    \* position in it and its local idx
    mutex           \* the external mutual exclusion around the four entry points:
                    \* whether the build has it, and the caller holding it (0: free)

vars == <<storage_table, fs, pc, last, before, objects, thread, mutex>>

---------------------------------------------------------------------------
(* Sizes.  The source's values are far beyond exhaustive search, so the    *)
(* model runs them scaled down; every formula below is written against     *)
(* the names, never against the numbers.                                   *)

\* #define STORAGE_MAX_ENTRIES 8U, scaled
STORAGE_MAX_ENTRIES == 2

\* #define STORAGE_MAX_ITEM_SIZE 1024U of storage_interface.c, scaled
STORAGE_MAX_ITEM_SIZE == 2

\* the caller's uids: one more than the table has slots
UIDS == 1..(STORAGE_MAX_ENTRIES + 1)

\* status codes, by name
PSA_SUCCESS == "PSA_SUCCESS"
PSA_ERROR_INVALID_ARGUMENT == "PSA_ERROR_INVALID_ARGUMENT"
PSA_ERROR_DOES_NOT_EXIST == "PSA_ERROR_DOES_NOT_EXIST"
PSA_ERROR_INSUFFICIENT_STORAGE == "PSA_ERROR_INSUFFICIENT_STORAGE"
PSA_ERROR_IO_ERROR == "PSA_ERROR_IO_ERROR"

\* memset(storage_table[i].data, 0xFF, ...) of storage_init
INIT_FILL == 255

\* what a caller's output buffer holds before the call: 0xEE in every byte
UNTOUCHED == 14 * 16 + 14

NULL == [null |-> TRUE, buf |-> <<>>]
Ptr(b) == [null |-> FALSE, buf |-> b]

\* a record of the log, an object of the history: absent, or its bytes
Absent == [present |-> FALSE, data |-> <<>>]
Object(d) == [present |-> TRUE, data |-> d]

Min(a, b) == IF a < b THEN a ELSE b

\* memcpy(dst + d_off, src + s_off, n) on buffers; dst is returned
memcpy(dst, d_off, src, s_off, n) ==
    [i \in 1..Len(dst) |->
        IF d_off < i /\ i <= d_off + n THEN src[s_off + (i - d_off)] ELSE dst[i]]

\* memset(dst + d_off, c, n)
memset(dst, d_off, c, n) ==
    [i \in 1..Len(dst) |-> IF d_off < i /\ i <= d_off + n THEN c ELSE dst[i]]

Fill(c, n) == [i \in 1..n |-> c]

---------------------------------------------------------------------------
(* storage_interface.c: the RAM table                                      *)

SLOTS == 0..(STORAGE_MAX_ENTRIES - 1)

\* find_entry that never looks at slot 0
find_entry_from_1(T, uid) ==
    IF \E i \in SLOTS : i > 0 /\ T[i].used /\ T[i].uid = uid
    THEN CHOOSE i \in SLOTS :
            /\ i > 0 /\ T[i].used /\ T[i].uid = uid
            /\ \A j \in SLOTS : (0 < j /\ j < i) => ~(T[j].used /\ T[j].uid = uid)
    ELSE -1

find_entry(T, uid) ==
    IF \E i \in SLOTS : T[i].used /\ T[i].uid = uid
    THEN CHOOSE i \in SLOTS :
            /\ T[i].used /\ T[i].uid = uid
            /\ \A j \in SLOTS : j < i => ~(T[j].used /\ T[j].uid = uid)
    ELSE -1

\* find_free_slot as an evicting allocator would have it: slot 0 when none is free
find_free_slot_evict(T) ==
    IF \E i \in SLOTS : ~T[i].used
    THEN CHOOSE i \in SLOTS : ~T[i].used /\ \A j \in SLOTS : j < i => T[j].used
    ELSE 0

\* find_free_slot scanning from the last slot down
find_free_slot_last(T) ==
    IF \E i \in SLOTS : ~T[i].used
    THEN CHOOSE i \in SLOTS : ~T[i].used /\ \A j \in SLOTS : j > i => T[j].used
    ELSE -1

find_free_slot(T) ==
    IF \E i \in SLOTS : ~T[i].used
    THEN CHOOSE i \in SLOTS : ~T[i].used /\ \A j \in SLOTS : j < i => T[j].used
    ELSE -1

\* store_entry with the copy one byte short
store_entry_short_copy(e, obj_uid, obj_length, p_obj) ==
    LET copied == memcpy(e.data, 0, p_obj.buf, 0, IF obj_length > 0 THEN obj_length - 1 ELSE 0)
    IN  [used |-> TRUE, uid |-> obj_uid, size |-> obj_length,
         data |-> IF obj_length < STORAGE_MAX_ITEM_SIZE
                  THEN memset(copied, obj_length, 0, STORAGE_MAX_ITEM_SIZE - obj_length)
                  ELSE copied]

\* store_entry without the memset of the remainder
store_entry_no_zero(e, obj_uid, obj_length, p_obj) ==
    [used |-> TRUE, uid |-> obj_uid, size |-> obj_length,
     data |-> memcpy(e.data, 0, p_obj.buf, 0, obj_length)]

\* lines 101-109: the writes of storage_set into slot idx
store_entry(e, obj_uid, obj_length, p_obj) ==
    LET copied == memcpy(e.data, 0, p_obj.buf, 0, obj_length)
    IN  [used |-> TRUE, uid |-> obj_uid, size |-> obj_length,
         data |-> IF obj_length < STORAGE_MAX_ITEM_SIZE
                  THEN memset(copied, obj_length, 0, STORAGE_MAX_ITEM_SIZE - obj_length)
                  ELSE copied]

\* storage_set that takes a free slot without looking the uid up
storage_set_no_lookup(T, obj_uid, obj_length, p_obj) ==
    IF p_obj.null THEN [ret |-> PSA_ERROR_INVALID_ARGUMENT, table |-> T]
    ELSE IF obj_length > STORAGE_MAX_ITEM_SIZE
    THEN [ret |-> PSA_ERROR_INSUFFICIENT_STORAGE, table |-> T]
    ELSE LET idx == find_free_slot(T)
         IN  IF idx < 0
             THEN [ret |-> PSA_ERROR_INSUFFICIENT_STORAGE, table |-> T]
             ELSE [ret |-> PSA_SUCCESS,
                   table |-> [T EXCEPT ![idx] = store_entry(T[idx], obj_uid, obj_length, p_obj)]]

\* storage_set claiming the slot before it checks the length
storage_set_late_check(T, obj_uid, obj_length, p_obj) ==
    IF p_obj.null THEN [ret |-> PSA_ERROR_INVALID_ARGUMENT, table |-> T]
    ELSE LET found == find_entry(T, obj_uid)
             idx == IF found < 0 THEN find_free_slot(T) ELSE found
         IN  IF idx < 0
             THEN [ret |-> PSA_ERROR_INSUFFICIENT_STORAGE, table |-> T]
             ELSE IF obj_length > STORAGE_MAX_ITEM_SIZE
             THEN [ret |-> PSA_ERROR_INSUFFICIENT_STORAGE,
                   table |-> [T EXCEPT ![idx].used = TRUE, ![idx].uid = obj_uid]]
             ELSE [ret |-> PSA_SUCCESS,
                   table |-> [T EXCEPT ![idx] = store_entry(T[idx], obj_uid, obj_length, p_obj)]]

storage_set(T, obj_uid, obj_length, p_obj) ==
    IF p_obj.null THEN [ret |-> PSA_ERROR_INVALID_ARGUMENT, table |-> T]
    ELSE IF obj_length > STORAGE_MAX_ITEM_SIZE
    THEN [ret |-> PSA_ERROR_INSUFFICIENT_STORAGE, table |-> T]
    ELSE LET found == find_entry(T, obj_uid)
             idx == IF found < 0 THEN find_free_slot(T) ELSE found
         IN  IF idx < 0
             THEN [ret |-> PSA_ERROR_INSUFFICIENT_STORAGE, table |-> T]
             ELSE [ret |-> PSA_SUCCESS,
                   table |-> [T EXCEPT ![idx] = store_entry(T[idx], obj_uid, obj_length, p_obj)]]

\* the window storage_get copies: [offset, offset + to_copy)
get_to_copy(stored, obj_offset, obj_length) ==
    LET avail == stored - obj_offset
    IN  IF obj_length > avail THEN avail ELSE obj_length

\* storage_get refusing the offset that equals the stored size
storage_get_ge(T, obj_uid, obj_offset, obj_length, p_obj) ==
    IF p_obj.null THEN [ret |-> PSA_ERROR_INVALID_ARGUMENT, out |-> p_obj.buf]
    ELSE LET idx == find_entry(T, obj_uid)
         IN  IF idx < 0 THEN [ret |-> PSA_ERROR_DOES_NOT_EXIST, out |-> p_obj.buf]
             ELSE LET stored == T[idx].size
                  IN  IF obj_offset >= stored
                      THEN [ret |-> PSA_ERROR_INVALID_ARGUMENT, out |-> p_obj.buf]
                      ELSE LET to_copy == get_to_copy(stored, obj_offset, obj_length)
                           IN  [ret |-> PSA_SUCCESS,
                                out |-> IF to_copy > 0
                                        THEN memcpy(p_obj.buf, 0, T[idx].data, obj_offset, to_copy)
                                        ELSE p_obj.buf]

storage_get(T, obj_uid, obj_offset, obj_length, p_obj) ==
    IF p_obj.null THEN [ret |-> PSA_ERROR_INVALID_ARGUMENT, out |-> p_obj.buf]
    ELSE LET idx == find_entry(T, obj_uid)
         IN  IF idx < 0 THEN [ret |-> PSA_ERROR_DOES_NOT_EXIST, out |-> p_obj.buf]
             ELSE LET stored == T[idx].size
                  IN  IF obj_offset > stored
                      THEN [ret |-> PSA_ERROR_INVALID_ARGUMENT, out |-> p_obj.buf]
                      ELSE LET to_copy == get_to_copy(stored, obj_offset, obj_length)
                           IN  [ret |-> PSA_SUCCESS,
                                out |-> IF to_copy > 0
                                        THEN memcpy(p_obj.buf, 0, T[idx].data, obj_offset, to_copy)
                                        ELSE p_obj.buf]

\* storage_get_info refusing the info size that equals the stored size
storage_get_info_ge(T, obj_uid, p_obj_info, obj_info_size) ==
    LET idx == find_entry(T, obj_uid)
    IN  IF idx < 0 THEN [ret |-> PSA_ERROR_DOES_NOT_EXIST, out |-> p_obj_info.buf]
        ELSE IF p_obj_info.null \/ obj_info_size >= T[idx].size
        THEN [ret |-> PSA_ERROR_INVALID_ARGUMENT, out |-> p_obj_info.buf]
        ELSE [ret |-> PSA_SUCCESS,
              out |-> memcpy(p_obj_info.buf, 0, T[idx].data, 0, obj_info_size)]

\* storage_get_info checking the pointer before it looks the uid up
storage_get_info_null_first(T, obj_uid, p_obj_info, obj_info_size) ==
    LET idx == find_entry(T, obj_uid)
    IN  IF p_obj_info.null THEN [ret |-> PSA_ERROR_INVALID_ARGUMENT, out |-> p_obj_info.buf]
        ELSE IF idx < 0 THEN [ret |-> PSA_ERROR_DOES_NOT_EXIST, out |-> p_obj_info.buf]
        ELSE IF obj_info_size > T[idx].size
        THEN [ret |-> PSA_ERROR_INVALID_ARGUMENT, out |-> p_obj_info.buf]
        ELSE [ret |-> PSA_SUCCESS,
              out |-> memcpy(p_obj_info.buf, 0, T[idx].data, 0, obj_info_size)]

storage_get_info(T, obj_uid, p_obj_info, obj_info_size) ==
    LET idx == find_entry(T, obj_uid)
    IN  IF idx < 0 THEN [ret |-> PSA_ERROR_DOES_NOT_EXIST, out |-> p_obj_info.buf]
        ELSE IF p_obj_info.null \/ obj_info_size > T[idx].size
        THEN [ret |-> PSA_ERROR_INVALID_ARGUMENT, out |-> p_obj_info.buf]
        ELSE [ret |-> PSA_SUCCESS,
              out |-> memcpy(p_obj_info.buf, 0, T[idx].data, 0, obj_info_size)]

\* storage_remove that only drops the used flag of the first slot in use
storage_remove_first_used(T, obj_uid) ==
    LET idx == find_entry(T, obj_uid)
    IN  IF idx < 0 THEN [ret |-> PSA_ERROR_DOES_NOT_EXIST, table |-> T]
        ELSE LET first == CHOOSE i \in SLOTS : T[i].used /\ \A j \in SLOTS : j < i => ~T[j].used
             IN  [ret |-> PSA_SUCCESS, table |-> [T EXCEPT ![first].used = FALSE]]

\* memset(&storage_table[idx], 0, sizeof(storage_table[idx]))
cleared_entry ==
    [used |-> FALSE, uid |-> 0, size |-> 0, data |-> Fill(0, STORAGE_MAX_ITEM_SIZE)]

storage_remove(T, obj_uid) ==
    LET idx == find_entry(T, obj_uid)
    IN  IF idx < 0 THEN [ret |-> PSA_ERROR_DOES_NOT_EXIST, table |-> T]
        ELSE [ret |-> PSA_SUCCESS, table |-> [T EXCEPT ![idx] = cleared_entry]]

\* the table after storage_init
storage_init ==
    [i \in SLOTS |->
        [used |-> FALSE, uid |-> 0, size |-> 0,
         data |-> Fill(INIT_FILL, STORAGE_MAX_ITEM_SIZE)]]

---------------------------------------------------------------------------
(* The callers' inputs                                                     *)

\* two families of payloads, so that position and origin of a byte show:
\* 1, 2, 3, ... in every length, and 11, 12, 13, ... in the shortest and the
\* longest length that fits
Payload(base, n) == [i \in 1..n |-> base + i]
Payloads(max) ==
    {Payload(0, n) : n \in 0..(max + 1)} \cup {Payload(10, n) : n \in {1, max}}

\* (obj_length, p_obj) of storage_set: the payloads, up to one byte beyond the
\* maximum, and a NULL pointer with a fitting and with an oversized length
SetArgs ==
    {[length |-> Len(d), p_obj |-> Ptr(d)] : d \in Payloads(STORAGE_MAX_ITEM_SIZE)}
    \cup {[length |-> n, p_obj |-> NULL] : n \in {1, STORAGE_MAX_ITEM_SIZE + 1}}

\* offsets and lengths at both ends of the range of sizes
EDGES == {0, 1, STORAGE_MAX_ITEM_SIZE, STORAGE_MAX_ITEM_SIZE + 1}

\* (obj_offset, obj_length, p_obj) of storage_get: the caller's buffer holds
\* obj_length bytes
GetArgs ==
    {[offset |-> o, length |-> n, p_obj |-> Ptr(Fill(UNTOUCHED, n))] :
        o \in EDGES, n \in EDGES}
    \cup {[offset |-> 0, length |-> 1, p_obj |-> NULL]}

\* (obj_info_size, p_obj_info) of storage_get_info
GetInfoArgs ==
    {[length |-> n, p_obj |-> Ptr(Fill(UNTOUCHED, n))] :
        n \in 0..(STORAGE_MAX_ITEM_SIZE + 1)}
    \cup {[length |-> n, p_obj |-> NULL] : n \in {0, 1}}

Call(op, uid, offset, length, p_obj, ret, out) ==
    [op |-> op, uid |-> uid, offset |-> offset, length |-> length,
     p_obj |-> p_obj, ret |-> ret, out |-> out]

NoCall == Call("none", 0, 0, 0, NULL, PSA_SUCCESS, <<>>)

----------------------------------------------------------------------

---------------------------------------------------------------------------
(* storage_interface_zfs.c: the layer over the ZMS keyed log               *)

\* #define STORAGE_MAX_ITEM_SIZE 1024U of storage_interface_zfs.c, scaled
ZFS_STORAGE_MAX_ITEM_SIZE == 3

\* uint8_t buf[128] of storage_get: sizeof(buf), scaled
BUF_SIZE == 2

\* sizeof(its_obj_info_t); the type comes from storage_interface.h, scaled
SIZEOF_ITS_OBJ_INFO == 1

\* uint32_t arithmetic is modulo 2^32; scaled to 2^UINT32_BITS
UINT32_BITS == 4
UINT32_MOD == 2 ^ UINT32_BITS
UINT32_MAX == UINT32_MOD - 1

\* -ENOENT, what the log answers for a key it does not hold
ENOENT_RC == 0 - 2

\* the uids of the callers of the ZMS layer (all below 2^32, the width of a ZMS id)
ZFS_UIDS == {1, 2}

\* what an indeterminate byte may read as: buf[] of storage_get is not
\* initialised, and a read beyond it is undefined
JUNK == {0, 170}

\* the log after zms_mount of storage_init, taken empty
zfs_storage_init == [id \in ZFS_UIDS |-> Absent]

\* -EIO, what the log answers when the flash fails
EIO_RC == 0 - 5

\* what a keyed write of len bytes may answer: an error, or the bytes written
\* (none, all but one, all)
ZmsWriteResults(len) == {EIO_RC} \cup {n \in 0..len : n = 0 \/ n >= len - 1}

\* the log as a keyed store (spec, section 6): write answers the bytes written
\* or an error (wrote, the log's choice); the record holds the bytes written,
\* and what it held when there was an error or nothing of the data was written
zms_write(f, id, data, len, wrote) ==
    IF wrote < 0 \/ (wrote = 0 /\ len > 0) THEN [rc |-> wrote, fs |-> f]
    ELSE [rc |-> wrote,
          fs |-> [f EXCEPT ![id] = [present |-> TRUE, data |-> SubSeq(data, 1, wrote)]]]

\* read answers min(len, record length) and that many bytes, or an error
zms_read(f, id, len) ==
    IF ~f[id].present THEN [rc |-> ENOENT_RC, data |-> <<>>]
    ELSE LET n == Min(len, Len(f[id].data))
         IN  [rc |-> n, data |-> SubSeq(f[id].data, 1, n)]

\* delete drops the record; for a key the log does not hold the answer is the
\* log's choice (absent_rc: 0 or an error)
zms_delete(f, id, absent_rc) ==
    IF f[id].present THEN [rc |-> 0, fs |-> [f EXCEPT ![id] = Absent]]
    ELSE [rc |-> absent_rc, fs |-> f]

zfs_storage_set(f, obj_uid, obj_length, p_obj, wrote) ==
    IF p_obj.null THEN [ret |-> PSA_ERROR_INVALID_ARGUMENT, fs |-> f]
    ELSE IF obj_length > ZFS_STORAGE_MAX_ITEM_SIZE
    THEN [ret |-> PSA_ERROR_INSUFFICIENT_STORAGE, fs |-> f]
    ELSE LET w == zms_write(f, obj_uid, p_obj.buf, obj_length, wrote)
         IN  IF w.rc < 0 THEN [ret |-> PSA_ERROR_IO_ERROR, fs |-> w.fs]
             ELSE IF w.rc < obj_length THEN [ret |-> PSA_ERROR_IO_ERROR, fs |-> w.fs]
             ELSE [ret |-> PSA_SUCCESS, fs |-> w.fs]

\* buf[] after zms_read(&fs, uid, buf, sizeof(buf)): rc bytes of the record,
\* the rest as the stack left it
zfs_buf(r, junk) ==
    [i \in 1..BUF_SIZE |-> IF i <= r.rc THEN r.data[i] ELSE junk]

\* the byte at buf + k (C index k): inside buf[] its content, beyond it anything
zfs_buf_at(b, k, junk) == IF k < BUF_SIZE THEN b[k + 1] ELSE junk

zfs_storage_get(f, obj_uid, obj_offset, obj_length, p_obj, junk) ==
    IF p_obj.null THEN [ret |-> PSA_ERROR_INVALID_ARGUMENT, out |-> p_obj.buf]
    ELSE IF (obj_offset + obj_length) % UINT32_MOD > BUF_SIZE
    THEN [ret |-> PSA_ERROR_INVALID_ARGUMENT, out |-> p_obj.buf]
    ELSE LET r == zms_read(f, obj_uid, BUF_SIZE)
         IN  IF r.rc < 0 THEN [ret |-> PSA_ERROR_IO_ERROR, out |-> p_obj.buf]
             ELSE IF r.rc < (obj_offset + obj_length) % UINT32_MOD
             THEN [ret |-> PSA_ERROR_IO_ERROR, out |-> p_obj.buf]
             ELSE LET b == zfs_buf(r, junk)
                  IN  [ret |-> PSA_SUCCESS,
                       out |-> [j \in 1..obj_length |->
                                  zfs_buf_at(b, SIZEOF_ITS_OBJ_INFO + obj_offset + (j - 1), junk)]]

zfs_storage_get_info(f, obj_uid, p_obj_info, obj_info_size) ==
    IF p_obj_info.null THEN [ret |-> PSA_ERROR_INVALID_ARGUMENT, out |-> p_obj_info.buf]
    ELSE LET r == zms_read(f, obj_uid, obj_info_size)
         IN  IF r.rc < 0 THEN [ret |-> PSA_ERROR_IO_ERROR, out |-> p_obj_info.buf]
             ELSE LET filled == memcpy(p_obj_info.buf, 0, r.data, 0, r.rc)
                  IN  IF r.rc < obj_info_size
                      THEN [ret |-> PSA_ERROR_IO_ERROR, out |-> filled]
                      ELSE [ret |-> PSA_SUCCESS, out |-> filled]

zfs_storage_remove(f, obj_uid, absent_rc) ==
    LET d == zms_delete(f, obj_uid, absent_rc)
    IN  IF d.rc < 0 THEN [ret |-> PSA_ERROR_IO_ERROR, fs |-> d.fs]
        ELSE [ret |-> PSA_SUCCESS, fs |-> d.fs]

---------------------------------------------------------------------------
(* The callers' inputs to the ZMS layer                                    *)

ZfsSetArgs ==
    {[length |-> Len(d), p_obj |-> Ptr(d)] : d \in Payloads(ZFS_STORAGE_MAX_ITEM_SIZE)}
    \cup {[length |-> n, p_obj |-> NULL] : n \in {1, ZFS_STORAGE_MAX_ITEM_SIZE + 1}}

\* offsets and lengths around the buffer size, and the largest uint32_t
ZFS_WINDOW == (0..(BUF_SIZE + 1)) \cup {UINT32_MAX}

ZfsGetArgs ==
    {[offset |-> o, length |-> n, p_obj |-> Ptr(Fill(UNTOUCHED, n))] :
        o \in ZFS_WINDOW, n \in ZFS_WINDOW}
    \cup {[offset |-> 0, length |-> 1, p_obj |-> NULL]}

ZfsGetInfoArgs ==
    {[length |-> n, p_obj |-> Ptr(Fill(UNTOUCHED, n))] :
        n \in 0..(ZFS_STORAGE_MAX_ITEM_SIZE + 1)}
    \cup {[length |-> n, p_obj |-> NULL] : n \in {0, 1}}

---------------------------------------------------------------------------
(* The state machines.  The entry points are synchronous and the caller    *)
(* is single-threaded (spec, section 5): a call runs to its return, the    *)
(* caller holds the result (pc = "returned") and goes on (Return).         *)

\* the concurrent callers, and a caller that is in no call
CALLERS == {1, 2}

IdleThread ==
    [pc |-> "idle", op |-> "none", uid |-> 0, offset |-> 0, length |-> 0,
     p_obj |-> NULL, idx |-> -1, ret |-> PSA_SUCCESS, out |-> <<>>]

Init ==
    /\ storage_table = storage_init
    /\ fs = zfs_storage_init
    /\ pc = "idle"
    /\ last = NoCall
    /\ objects = [uid \in UIDS |-> Absent]
    /\ before = [table |-> storage_init, fs |-> zfs_storage_init, objects |-> objects]
    /\ thread = [c \in CALLERS |-> IdleThread]
    /\ mutex = [layer |-> FALSE, holder |-> 0]

Return ==
    /\ pc = "returned"
    /\ pc' = "idle"
    /\ last' = NoCall
    /\ before' = [table |-> storage_table, fs |-> fs, objects |-> objects]
    /\ UNCHANGED <<storage_table, fs, objects>>
    /\ UNCHANGED <<thread, mutex>>

StorageSet ==
    /\ pc = "idle"
    /\ \E uid \in UIDS, a \in SetArgs :
        LET r == storage_set(storage_table, uid, a.length, a.p_obj)
        IN  /\ storage_table' = r.table
            /\ last' = Call("set", uid, 0, a.length, a.p_obj, r.ret, <<>>)
            /\ objects' = IF r.ret = PSA_SUCCESS
                           THEN [objects EXCEPT ![uid] = Object(a.p_obj.buf)]
                           ELSE objects
    /\ pc' = "returned"
    /\ before' = [table |-> storage_table, fs |-> fs, objects |-> objects]
    /\ UNCHANGED fs
    /\ UNCHANGED <<thread, mutex>>

StorageGet ==
    /\ pc = "idle"
    /\ \E uid \in UIDS, a \in GetArgs :
        LET r == storage_get(storage_table, uid, a.offset, a.length, a.p_obj)
        IN  last' = Call("get", uid, a.offset, a.length, a.p_obj, r.ret, r.out)
    /\ pc' = "returned"
    /\ before' = [table |-> storage_table, fs |-> fs, objects |-> objects]
    /\ UNCHANGED <<storage_table, fs, objects>>
    /\ UNCHANGED <<thread, mutex>>

StorageGetInfo ==
    /\ pc = "idle"
    /\ \E uid \in UIDS, a \in GetInfoArgs :
        LET r == storage_get_info(storage_table, uid, a.p_obj, a.length)
        IN  last' = Call("get_info", uid, 0, a.length, a.p_obj, r.ret, r.out)
    /\ pc' = "returned"
    /\ before' = [table |-> storage_table, fs |-> fs, objects |-> objects]
    /\ UNCHANGED <<storage_table, fs, objects>>
    /\ UNCHANGED <<thread, mutex>>

StorageRemove ==
    /\ pc = "idle"
    /\ \E uid \in UIDS :
        LET r == storage_remove(storage_table, uid)
        IN  /\ storage_table' = r.table
            /\ last' = Call("remove", uid, 0, 0, NULL, r.ret, <<>>)
            /\ objects' = IF r.ret = PSA_SUCCESS THEN [objects EXCEPT ![uid] = Absent]
                           ELSE objects
    /\ pc' = "returned"
    /\ before' = [table |-> storage_table, fs |-> fs, objects |-> objects]
    /\ UNCHANGED fs
    /\ UNCHANGED <<thread, mutex>>

Next == StorageSet \/ StorageGet \/ StorageGetInfo \/ StorageRemove \/ Return

Spec == Init /\ [][Next]_vars

ZfsStorageSet ==
    /\ pc = "idle"
    /\ \E uid \in ZFS_UIDS, a \in ZfsSetArgs : \E wrote \in ZmsWriteResults(a.length) :
        LET r == zfs_storage_set(fs, uid, a.length, a.p_obj, wrote)
        IN  /\ fs' = r.fs
            /\ last' = Call("set", uid, 0, a.length, a.p_obj, r.ret, <<>>)
            /\ objects' = IF r.ret = PSA_SUCCESS
                           THEN [objects EXCEPT ![uid] = Object(a.p_obj.buf)]
                           ELSE objects
    /\ pc' = "returned"
    /\ before' = [table |-> storage_table, fs |-> fs, objects |-> objects]
    /\ UNCHANGED storage_table
    /\ UNCHANGED <<thread, mutex>>

ZfsStorageGet ==
    /\ pc = "idle"
    /\ \E uid \in ZFS_UIDS, a \in ZfsGetArgs, junk \in JUNK :
        LET r == zfs_storage_get(fs, uid, a.offset, a.length, a.p_obj, junk)
        IN  last' = Call("get", uid, a.offset, a.length, a.p_obj, r.ret, r.out)
    /\ pc' = "returned"
    /\ before' = [table |-> storage_table, fs |-> fs, objects |-> objects]
    /\ UNCHANGED <<storage_table, fs, objects>>
    /\ UNCHANGED <<thread, mutex>>

ZfsStorageGetInfo ==
    /\ pc = "idle"
    /\ \E uid \in ZFS_UIDS, a \in ZfsGetInfoArgs :
        LET r == zfs_storage_get_info(fs, uid, a.p_obj, a.length)
        IN  last' = Call("get_info", uid, 0, a.length, a.p_obj, r.ret, r.out)
    /\ pc' = "returned"
    /\ before' = [table |-> storage_table, fs |-> fs, objects |-> objects]
    /\ UNCHANGED <<storage_table, fs, objects>>
    /\ UNCHANGED <<thread, mutex>>

ZfsStorageRemove ==
    /\ pc = "idle"
    /\ \E uid \in ZFS_UIDS, absent_rc \in {0, ENOENT_RC} :
        LET r == zfs_storage_remove(fs, uid, absent_rc)
        IN  /\ fs' = r.fs
            /\ last' = Call("remove", uid, 0, 0, NULL, r.ret, <<>>)
            /\ objects' = IF r.ret = PSA_SUCCESS THEN [objects EXCEPT ![uid] = Absent]
                           ELSE objects
    /\ pc' = "returned"
    /\ before' = [table |-> storage_table, fs |-> fs, objects |-> objects]
    /\ UNCHANGED storage_table
    /\ UNCHANGED <<thread, mutex>>

NextZfs == ZfsStorageSet \/ ZfsStorageGet \/ ZfsStorageGetInfo \/ ZfsStorageRemove \/ Return

SpecZfs == Init /\ [][NextZfs]_vars

---------------------------------------------------------------------------
(* Both backends behind the one interface: a caller's sequence of calls is *)
(* given to the RAM table and to the ZMS layer alike.  The calls stay      *)
(* within the bounds of both: no more uids than the table has slots,       *)
(* lengths and windows within buf[] and within both item sizes, data and   *)
(* output buffers present.  last holds what the RAM table answered.        *)

BothUids == {u \in ZFS_UIDS : u <= STORAGE_MAX_ENTRIES}

BothSetArgs ==
    {a \in SetArgs : /\ ~a.p_obj.null
                     /\ a.length <= BUF_SIZE
                     /\ a.length <= STORAGE_MAX_ITEM_SIZE
                     /\ a.length <= ZFS_STORAGE_MAX_ITEM_SIZE}

BothGetArgs == {a \in GetArgs : ~a.p_obj.null /\ a.offset + a.length <= BUF_SIZE}

BothGetInfoArgs == {a \in GetInfoArgs : ~a.p_obj.null /\ a.length <= BUF_SIZE}

BothSet ==
    /\ pc = "idle"
    /\ \E uid \in BothUids, a \in BothSetArgs :
        LET r == storage_set(storage_table, uid, a.length, a.p_obj)
            z == zfs_storage_set(fs, uid, a.length, a.p_obj, a.length)
        IN  /\ storage_table' = r.table
            /\ fs' = z.fs
            /\ last' = Call("set", uid, 0, a.length, a.p_obj, r.ret, <<>>)
            /\ objects' = IF r.ret = PSA_SUCCESS
                           THEN [objects EXCEPT ![uid] = Object(a.p_obj.buf)]
                           ELSE objects
    /\ pc' = "returned"
    /\ before' = [table |-> storage_table, fs |-> fs, objects |-> objects]
    /\ UNCHANGED <<thread, mutex>>

BothGet ==
    /\ pc = "idle"
    /\ \E uid \in BothUids, a \in BothGetArgs :
        LET r == storage_get(storage_table, uid, a.offset, a.length, a.p_obj)
        IN  last' = Call("get", uid, a.offset, a.length, a.p_obj, r.ret, r.out)
    /\ pc' = "returned"
    /\ before' = [table |-> storage_table, fs |-> fs, objects |-> objects]
    /\ UNCHANGED <<storage_table, fs, objects>>
    /\ UNCHANGED <<thread, mutex>>

BothGetInfo ==
    /\ pc = "idle"
    /\ \E uid \in BothUids, a \in BothGetInfoArgs :
        LET r == storage_get_info(storage_table, uid, a.p_obj, a.length)
        IN  last' = Call("get_info", uid, 0, a.length, a.p_obj, r.ret, r.out)
    /\ pc' = "returned"
    /\ before' = [table |-> storage_table, fs |-> fs, objects |-> objects]
    /\ UNCHANGED <<storage_table, fs, objects>>
    /\ UNCHANGED <<thread, mutex>>

BothRemove ==
    /\ pc = "idle"
    /\ \E uid \in BothUids, absent_rc \in {0, ENOENT_RC} :
        LET r == storage_remove(storage_table, uid)
            z == zfs_storage_remove(fs, uid, absent_rc)
        IN  /\ storage_table' = r.table
            /\ fs' = z.fs
            /\ last' = Call("remove", uid, 0, 0, NULL, r.ret, <<>>)
            /\ objects' = IF r.ret = PSA_SUCCESS THEN [objects EXCEPT ![uid] = Absent]
                           ELSE objects
    /\ pc' = "returned"
    /\ before' = [table |-> storage_table, fs |-> fs, objects |-> objects]
    /\ UNCHANGED <<thread, mutex>>

NextBoth == BothSet \/ BothGet \/ BothGetInfo \/ BothRemove \/ Return

SpecBoth == Init /\ [][NextBoth]_vars

---------------------------------------------------------------------------
(* Concurrent callers of the RAM table.  storage_interface.c takes no      *)
(* lock: a call of one caller proceeds in steps (the scan of find_entry,   *)
(* the scan of find_free_slot, the writes to the slot) between which the   *)
(* other caller may run.  A build with the external mutex of the spec,     *)
(* section 5, takes it before an entry point and gives it back after       *)
(* (mutex.layer); a build without it does not.  objects follows the        *)
(* writes: a set counts when its last write to the slot is done, a remove  *)
(* when the slot is cleared.                                               *)

RACE_UIDS == {u \in UIDS : u <= 2}

\* the calls of caller c; its payloads differ from the other caller's
RaceCalls(c) ==
    {[op |-> "set", uid |-> u, offset |-> 0, length |-> n,
      p_obj |-> Ptr(Payload(10 * (c - 1), n))] :
        u \in RACE_UIDS, n \in {STORAGE_MAX_ITEM_SIZE}}
    \cup {[op |-> "set", uid |-> 1, offset |-> 0, length |-> 1, p_obj |-> NULL]}
    \cup {[op |-> "get", uid |-> u, offset |-> 0, length |-> STORAGE_MAX_ITEM_SIZE,
           p_obj |-> Ptr(Fill(UNTOUCHED, STORAGE_MAX_ITEM_SIZE))] : u \in RACE_UIDS}
    \cup {[op |-> "get_info", uid |-> u, offset |-> 0, length |-> 1,
           p_obj |-> Ptr(Fill(UNTOUCHED, 1))] : u \in RACE_UIDS}
    \cup {[op |-> "remove", uid |-> u, offset |-> 0, length |-> 0, p_obj |-> NULL] :
            u \in RACE_UIDS}

\* mutex lock and unlock around an entry point, where the build has the mutex
MutexFree == mutex.layer => mutex.holder = 0
Locked(c) == IF mutex.layer THEN [mutex EXCEPT !.holder = c] ELSE mutex
Unlocked == [mutex EXCEPT !.holder = 0]

\* caller c at the return of its call
Finish(c, ret, out) ==
    [thread EXCEPT ![c].pc = "done", ![c].ret = ret, ![c].out = out]

InitRace ==
    /\ storage_table = storage_init
    /\ fs = zfs_storage_init
    /\ pc = "idle"
    /\ last = NoCall
    /\ objects = [uid \in UIDS |-> Absent]
    /\ before = [table |-> storage_init, fs |-> zfs_storage_init, objects |-> objects]
    /\ thread = [c \in CALLERS |-> IdleThread]
    /\ mutex \in {[layer |-> l, holder |-> 0] : l \in BOOLEAN}

\* entry: the checks of the arguments that come before any access to the table
RaceCall(c) ==
    /\ thread[c].pc = "idle"
    /\ MutexFree
    /\ \E a \in RaceCalls(c) :
        LET t == [pc |-> "find_entry", op |-> a.op, uid |-> a.uid, offset |-> a.offset,
                  length |-> a.length, p_obj |-> a.p_obj, idx |-> -1,
                  ret |-> PSA_SUCCESS, out |-> a.p_obj.buf]
        IN  IF a.op \in {"set", "get"} /\ a.p_obj.null
            THEN /\ thread' = [thread EXCEPT ![c] =
                                 [t EXCEPT !.pc = "done", !.ret = PSA_ERROR_INVALID_ARGUMENT]]
                 /\ UNCHANGED mutex
            ELSE IF a.op = "set" /\ a.length > STORAGE_MAX_ITEM_SIZE
            THEN /\ thread' = [thread EXCEPT ![c] =
                                 [t EXCEPT !.pc = "done", !.ret = PSA_ERROR_INSUFFICIENT_STORAGE]]
                 /\ UNCHANGED mutex
            ELSE /\ thread' = [thread EXCEPT ![c] = t]
                 /\ mutex' = Locked(c)
    /\ UNCHANGED <<storage_table, fs, pc, last, before, objects>>

\* idx = find_entry(obj_uid), and what each entry point does with a miss
RaceFindEntry(c) ==
    /\ thread[c].pc = "find_entry"
    /\ LET idx == find_entry(storage_table, thread[c].uid)
       IN  IF idx >= 0
           THEN /\ thread' = [thread EXCEPT ![c].idx = idx,
                                 ![c].pc = CASE thread[c].op = "set" -> "write"
                                             [] thread[c].op = "get" -> "copy"
                                             [] thread[c].op = "get_info" -> "copy_info"
                                             [] OTHER -> "clear"]
                /\ UNCHANGED mutex
           ELSE IF thread[c].op = "set"
           THEN /\ thread' = [thread EXCEPT ![c].pc = "find_free_slot"]
                /\ UNCHANGED mutex
           ELSE /\ thread' = Finish(c, PSA_ERROR_DOES_NOT_EXIST, thread[c].out)
                /\ mutex' = Unlocked
    /\ UNCHANGED <<storage_table, fs, pc, last, before, objects>>

\* storage_set: idx = find_free_slot()
RaceFindFreeSlot(c) ==
    /\ thread[c].pc = "find_free_slot"
    /\ LET idx == find_free_slot(storage_table)
       IN  IF idx < 0
           THEN /\ thread' = Finish(c, PSA_ERROR_INSUFFICIENT_STORAGE, thread[c].out)
                /\ mutex' = Unlocked
           ELSE /\ thread' = [thread EXCEPT ![c].idx = idx, ![c].pc = "write"]
                /\ UNCHANGED mutex
    /\ UNCHANGED <<storage_table, fs, pc, last, before, objects>>

\* storage_set: used, uid and size of slot idx
RaceWriteEntry(c) ==
    /\ thread[c].pc = "write"
    /\ storage_table' = [storage_table EXCEPT ![thread[c].idx].used = TRUE,
                                              ![thread[c].idx].uid = thread[c].uid,
                                              ![thread[c].idx].size = thread[c].length]
    /\ thread' = [thread EXCEPT ![c].pc = "write_data"]
    /\ UNCHANGED <<fs, pc, last, before, objects, mutex>>

\* storage_set: memcpy of the data and memset of the remainder, then return
RaceWriteData(c) ==
    /\ thread[c].pc = "write_data"
    /\ LET t == thread[c]
       IN  /\ storage_table' =
                [storage_table EXCEPT ![t.idx].data =
                    store_entry(storage_table[t.idx], t.uid, t.length, t.p_obj).data]
           /\ objects' = [objects EXCEPT ![t.uid] = Object(t.p_obj.buf)]
           /\ thread' = Finish(c, PSA_SUCCESS, t.out)
    /\ mutex' = Unlocked
    /\ UNCHANGED <<fs, pc, last, before>>

\* storage_get: the offset check and the copy out of slot idx
RaceCopy(c) ==
    /\ thread[c].pc = "copy"
    /\ LET t == thread[c]
           stored == storage_table[t.idx].size
           to_copy == get_to_copy(stored, t.offset, t.length)
       IN  thread' =
             IF t.offset > stored THEN Finish(c, PSA_ERROR_INVALID_ARGUMENT, t.out)
             ELSE Finish(c, PSA_SUCCESS,
                         IF to_copy > 0
                         THEN memcpy(t.out, 0, storage_table[t.idx].data, t.offset, to_copy)
                         ELSE t.out)
    /\ mutex' = Unlocked
    /\ UNCHANGED <<storage_table, fs, pc, last, before, objects>>

\* storage_get_info: the checks and the copy out of slot idx
RaceCopyInfo(c) ==
    /\ thread[c].pc = "copy_info"
    /\ LET t == thread[c]
       IN  thread' =
             IF t.p_obj.null \/ t.length > storage_table[t.idx].size
             THEN Finish(c, PSA_ERROR_INVALID_ARGUMENT, t.out)
             ELSE Finish(c, PSA_SUCCESS,
                         memcpy(t.out, 0, storage_table[t.idx].data, 0, t.length))
    /\ mutex' = Unlocked
    /\ UNCHANGED <<storage_table, fs, pc, last, before, objects>>

\* storage_remove: memset of slot idx
RaceClear(c) ==
    /\ thread[c].pc = "clear"
    /\ storage_table' = [storage_table EXCEPT ![thread[c].idx] = cleared_entry]
    /\ objects' = [objects EXCEPT ![thread[c].uid] = Absent]
    /\ thread' = Finish(c, PSA_SUCCESS, thread[c].out)
    /\ mutex' = Unlocked
    /\ UNCHANGED <<fs, pc, last, before>>

\* the caller takes the result and is free to call again
RaceReturn(c) ==
    /\ thread[c].pc = "done"
    /\ thread' = [thread EXCEPT ![c] = IdleThread]
    /\ UNCHANGED <<storage_table, fs, pc, last, before, objects, mutex>>

NextRace ==
    \E c \in CALLERS :
        \/ RaceCall(c)
        \/ RaceFindEntry(c)
        \/ RaceFindFreeSlot(c)
        \/ RaceWriteEntry(c)
        \/ RaceWriteData(c)
        \/ RaceCopy(c)
        \/ RaceCopyInfo(c)
        \/ RaceClear(c)
        \/ RaceReturn(c)

SpecRace == InitRace /\ [][NextRace]_vars

---------------------------------------------------------------------------
(* Vocabulary of the properties                                            *)

Returned(op) == pc = "returned" /\ last.op = op

Stored(T, uid) == \E i \in SLOTS : T[i].used /\ T[i].uid = uid

\* the slot holding uid (Stored(T, uid) assumed)
SlotOf(T, uid) == CHOOSE i \in SLOTS : T[i].used /\ T[i].uid = uid

Full(T) == \A i \in SLOTS : T[i].used

\* a caller's output buffer of n bytes, before the call
OutBuf(n) == Ptr(Fill(UNTOUCHED, n))

\* arguments storage_set accepts: data present, length within the item size
ValidSetArgs == {a \in SetArgs : ~a.p_obj.null /\ a.length <= STORAGE_MAX_ITEM_SIZE}

\* the windows a read may ask for
WINDOW == 0..(STORAGE_MAX_ITEM_SIZE + 1)

---------------------------------------------------------------------------
(* C1: RAM table round trip.  When storage_set(uid, L, data) returns       *)
(* success, whatever the table held, the storage_get(uid, 0, L, out) that  *)
(* follows it returns success and out[0..L) is data, byte for byte.        *)
C1_RoundTrip ==
    (Returned("set") /\ last.ret = PSA_SUCCESS) =>
        LET g == storage_get(storage_table, last.uid, 0, last.length, OutBuf(last.length))
        IN  /\ g.ret = PSA_SUCCESS
            /\ g.out = last.p_obj.buf

\* a full-size object was just stored over another object into a full table
C1_Witness ==
    /\ Returned("set") /\ last.ret = PSA_SUCCESS
    /\ last.length = STORAGE_MAX_ITEM_SIZE
    /\ Full(before.table) /\ Stored(before.table, last.uid)
    /\ before.table # storage_table

(* C2: ZMS layer round trip.  When storage_set(uid, L, data) with          *)
(* L <= sizeof(buf) returns success, the storage_get(uid, 0, L, out) that  *)
(* follows returns success and out[0..L) is data.                          *)
C2_LogRoundTrip ==
    (Returned("set") /\ last.ret = PSA_SUCCESS /\ last.length <= BUF_SIZE) =>
        \A junk \in JUNK :
            LET g == zfs_storage_get(fs, last.uid, 0, last.length, OutBuf(last.length), junk)
            IN  /\ g.ret = PSA_SUCCESS
                /\ g.out = last.p_obj.buf

(* C3: RAM table, uid not stored: no storage_set of it has succeeded, or   *)
(* none since its last successful remove.  storage_get with an output      *)
(* buffer, storage_get_info and storage_remove each return DOES_NOT_EXIST,  *)
(* and the failing call changes neither the table nor the caller's buffer. *)
C3_NeverSet ==
    ( /\ pc = "returned"
      /\ last.op \in {"get", "get_info", "remove"}
      /\ ~before.objects[last.uid].present
      /\ (last.op = "get" => ~last.p_obj.null) ) =>
        /\ last.ret = PSA_ERROR_DOES_NOT_EXIST
        /\ storage_table = before.table
        /\ last.out = last.p_obj.buf

\* get_info without a buffer, on a uid not stored, while other objects are
C3_Witness ==
    /\ Returned("get_info") /\ last.p_obj.null
    /\ ~before.objects[last.uid].present
    /\ \E u \in UIDS : before.objects[u].present
    /\ last.ret = PSA_ERROR_DOES_NOT_EXIST

(* C4: ZMS layer, uid not written.  storage_get, storage_get_info and      *)
(* storage_remove each fail with DOES_NOT_EXIST (stated for calls with an  *)
(* output buffer and a window inside the working buffer, where no other    *)
(* check of the arguments can answer first).                               *)
C4_LogNeverWritten ==
    ( /\ pc = "returned"
      /\ last.op \in {"get", "get_info", "remove"}
      /\ ~before.objects[last.uid].present
      /\ (last.op \in {"get", "get_info"} => ~last.p_obj.null)
      /\ last.offset + last.length <= BUF_SIZE ) =>
        last.ret = PSA_ERROR_DOES_NOT_EXIST

\* the stored size as get_info would report it: a little-endian integer of n bytes
SizeBytes(size, n) == [i \in 1..n |-> (size \div (256 ^ (i - 1))) % 256]

(* C5: after storage_set(uid, L, data) succeeds, storage_get_info(uid,     *)
(* out_info, info_size) succeeds and what it writes to out_info reports L  *)
(* (stated for the info sizes 1..L, which the size check of get_info lets  *)
(* through).                                                               *)
C5_GetInfoReportsSize ==
    (Returned("set") /\ last.ret = PSA_SUCCESS) =>
        \A n \in 1..last.length :
            LET r == storage_get_info(storage_table, last.uid, OutBuf(n), n)
            IN  /\ r.ret = PSA_SUCCESS
                /\ r.out = SizeBytes(last.length, n)

(* C6: RAM table overwrite.  After set(uid, A) and then set(uid, B) both   *)
(* succeed, the stored size is len(B), get(uid, 0, len(B)) returns B, every *)
(* byte of the slot's buffer at index >= len(B) is zero, and every byte    *)
(* any get on uid copies is the byte of B at its index: none at an index   *)
(* >= len(B), none of A.                                                   *)
C6_Overwrite ==
    (Returned("set") /\ last.ret = PSA_SUCCESS /\ Stored(before.table, last.uid)) =>
        LET B == last.p_obj.buf
            e == storage_table[SlotOf(storage_table, last.uid)]
        IN  /\ e.size = Len(B)
            /\ storage_get(storage_table, last.uid, 0, Len(B), OutBuf(Len(B))).out = B
            /\ \A i \in 1..STORAGE_MAX_ITEM_SIZE : i > Len(B) => e.data[i] = 0
            /\ \A o \in WINDOW, n \in WINDOW :
                 LET g == storage_get(storage_table, last.uid, o, n, OutBuf(n))
                 IN  \A j \in 1..n :
                        \/ g.out[j] = UNTOUCHED
                        \/ (o + j <= Len(B) /\ g.out[j] = B[o + j])

\* a shorter object of the other payload family replaced a full-size one
C6_Witness ==
    /\ Returned("set") /\ last.ret = PSA_SUCCESS
    /\ Stored(before.table, last.uid)
    /\ LET old == before.table[SlotOf(before.table, last.uid)]
       IN  /\ old.size = STORAGE_MAX_ITEM_SIZE
           /\ 0 < last.length /\ last.length < old.size
           /\ old.data[1] # last.p_obj.buf[1]

(* C7: RAM table capacity.  With all slots in use, storage_set of a uid    *)
(* that is not stored fails with INSUFFICIENT_STORAGE; after one           *)
(* successful storage_remove from that full state, storage_set of any new  *)
(* uid succeeds, and after it storage_set of yet another new uid fails     *)
(* with INSUFFICIENT_STORAGE again.                                        *)
C7_Capacity ==
    /\ (Returned("set") /\ Full(before.table) /\ ~Stored(before.table, last.uid)
            /\ ~last.p_obj.null) =>
         last.ret = PSA_ERROR_INSUFFICIENT_STORAGE
    /\ (Returned("remove") /\ last.ret = PSA_SUCCESS /\ Full(before.table)) =>
         \A u \in UIDS, a \in ValidSetArgs :
            ~Stored(storage_table, u) =>
                LET first == storage_set(storage_table, u, a.length, a.p_obj)
                IN  /\ first.ret = PSA_SUCCESS
                    /\ \A v \in UIDS, c \in ValidSetArgs :
                          ~Stored(first.table, v) =>
                              storage_set(first.table, v, c.length, c.p_obj).ret
                                  = PSA_ERROR_INSUFFICIENT_STORAGE

\* an object was removed from a full table
C7_Witness ==
    /\ Returned("remove") /\ last.ret = PSA_SUCCESS
    /\ Full(before.table) /\ ~Full(storage_table)

(* C8: removing twice.  For a stored uid the first remove returns success; *)
(* a second remove right after it returns DOES_NOT_EXIST, and so do get    *)
(* and get_info on that uid.  Stated here for the ZMS layer.               *)
C8_LogRemoveTwice ==
    (Returned("remove") /\ last.ret = PSA_SUCCESS
        /\ before.fs[last.uid].present /\ Len(before.fs[last.uid].data) > 0) =>
        /\ \A absent_rc \in {0, ENOENT_RC} :
              zfs_storage_remove(fs, last.uid, absent_rc).ret = PSA_ERROR_DOES_NOT_EXIST
        /\ \A junk \in JUNK :
              zfs_storage_get(fs, last.uid, 0, 1, OutBuf(1), junk).ret = PSA_ERROR_DOES_NOT_EXIST
        /\ zfs_storage_get_info(fs, last.uid, OutBuf(1), 1).ret = PSA_ERROR_DOES_NOT_EXIST

\* the same for the RAM table, where it holds
C8_RamRemoveTwice ==
    (Returned("remove") /\ Stored(before.table, last.uid)) =>
        /\ last.ret = PSA_SUCCESS
        /\ storage_remove(storage_table, last.uid).ret = PSA_ERROR_DOES_NOT_EXIST
        /\ \A o \in WINDOW, n \in WINDOW :
              storage_get(storage_table, last.uid, o, n, OutBuf(n)).ret = PSA_ERROR_DOES_NOT_EXIST
        /\ \A a \in GetInfoArgs :
              storage_get_info(storage_table, last.uid, a.p_obj, a.length).ret
                  = PSA_ERROR_DOES_NOT_EXIST

(* C9: RAM table partial read.  For a stored uid of size S and data D and  *)
(* an output buffer, storage_get(uid, offset, length, out) returns         *)
(* INVALID_ARGUMENT and copies nothing when offset > S; otherwise it       *)
(* returns success with out[0..n) = D[offset..offset+n) for                *)
(* n = min(length, S - offset), and out[n..) as it was.                    *)
C9_PartialRead ==
    (Returned("get") /\ ~last.p_obj.null /\ Stored(storage_table, last.uid)) =>
        LET e == storage_table[SlotOf(storage_table, last.uid)]
            S == e.size
            n == Min(last.length, S - last.offset)
        IN  IF last.offset > S
            THEN /\ last.ret = PSA_ERROR_INVALID_ARGUMENT
                 /\ last.out = last.p_obj.buf
            ELSE /\ last.ret = PSA_SUCCESS
                 /\ last.out = SubSeq(e.data, last.offset + 1, last.offset + n)
                                 \o Fill(UNTOUCHED, last.length - n)

\* a read that starts inside the object and asks for more than is left of it
C9_Witness ==
    /\ Returned("get") /\ last.ret = PSA_SUCCESS
    /\ Stored(storage_table, last.uid)
    /\ LET S == storage_table[SlotOf(storage_table, last.uid)].size
       IN  /\ 0 < last.offset /\ last.offset < S
           /\ last.length > S - last.offset
           /\ last.out[1] # UNTOUCHED
           /\ last.out[last.length] = UNTOUCHED

(* C10: RAM table, failing set.  Absent data gives INVALID_ARGUMENT, a     *)
(* length above the item size INSUFFICIENT_STORAGE, a new uid with no free *)
(* slot INSUFFICIENT_STORAGE; and a storage_set that fails leaves every    *)
(* slot of the table as it was.                                            *)
C10_FailingSet ==
    Returned("set") =>
        /\ last.p_obj.null => last.ret = PSA_ERROR_INVALID_ARGUMENT
        /\ (~last.p_obj.null /\ last.length > STORAGE_MAX_ITEM_SIZE) =>
              last.ret = PSA_ERROR_INSUFFICIENT_STORAGE
        /\ (~last.p_obj.null /\ last.length <= STORAGE_MAX_ITEM_SIZE
                /\ ~Stored(before.table, last.uid) /\ Full(before.table)) =>
              last.ret = PSA_ERROR_INSUFFICIENT_STORAGE
        /\ last.ret # PSA_SUCCESS => storage_table = before.table

\* an oversized set on a uid that holds an object
C10_Witness ==
    /\ Returned("set") /\ last.ret = PSA_ERROR_INSUFFICIENT_STORAGE
    /\ ~last.p_obj.null /\ last.length > STORAGE_MAX_ITEM_SIZE
    /\ Stored(before.table, last.uid)
    /\ before.table[SlotOf(before.table, last.uid)].size > 0

C12_WindowCheck ==
    Returned("get") =>
        /\ (last.offset + last.length > BUF_SIZE) =>
              /\ last.ret = PSA_ERROR_INVALID_ARGUMENT
              /\ last.out = last.p_obj.buf
        /\ ( /\ ~last.p_obj.null
             /\ last.offset + last.length <= BUF_SIZE
             /\ before.fs[last.uid].present
             /\ Len(before.fs[last.uid].data) < last.offset + last.length ) =>
              /\ last.ret = PSA_ERROR_IO_ERROR
              /\ last.out = last.p_obj.buf

(* C13: the two backends are interchangeable.  For every sequence of       *)
(* set/get/get_info/remove calls within the bounds of both (lengths within *)
(* buf[], read windows within the stored size, no more uids than slots, a  *)
(* log that never faults) the ZMS layer returns for each call the outcome  *)
(* and the output bytes the RAM table returns.                             *)
C13_Interchangeable ==
    pc = "returned" =>
        LET size == before.table[SlotOf(before.table, last.uid)].size
        IN  /\ last.op = "set" =>
                  zfs_storage_set(before.fs, last.uid, last.length, last.p_obj, last.length).ret
                      = last.ret
            /\ ( /\ last.op = "get" /\ Stored(before.table, last.uid)
                 /\ last.offset + last.length <= size ) =>
                  \A junk \in JUNK :
                     LET z == zfs_storage_get(before.fs, last.uid, last.offset,
                                              last.length, last.p_obj, junk)
                     IN  z.ret = last.ret /\ z.out = last.out
            /\ ( /\ last.op = "get_info" /\ Stored(before.table, last.uid)
                 /\ last.length <= size ) =>
                  LET z == zfs_storage_get_info(before.fs, last.uid, last.p_obj, last.length)
                  IN  z.ret = last.ret /\ z.out = last.out
            /\ last.op = "remove" =>
                  \A absent_rc \in {0, ENOENT_RC} :
                     zfs_storage_remove(before.fs, last.uid, absent_rc).ret = last.ret

\* the same, for reads of stored objects only
C13_StoredReads ==
    (Returned("get") /\ Stored(before.table, last.uid)
        /\ last.offset + last.length
              <= before.table[SlotOf(before.table, last.uid)].size) =>
        \A junk \in JUNK :
           LET z == zfs_storage_get(before.fs, last.uid, last.offset,
                                    last.length, last.p_obj, junk)
           IN  z.ret = last.ret /\ z.out = last.out

(* C14: ZMS layer, outcomes of storage_set.  INVALID_ARGUMENT when data is *)
(* absent and INSUFFICIENT_STORAGE when length exceeds the item size, both *)
(* without a keyed write; otherwise IO_ERROR exactly when the write        *)
(* reports an error or fewer bytes than length, and success exactly when   *)
(* it reports at least length bytes.  A set that returns IO_ERROR leaves   *)
(* no half-written object observable: every later get on that uid answers  *)
(* what it would have answered before the set.                             *)
C14_LogSetOutcomes ==
    Returned("set") =>
        /\ last.p_obj.null =>
              last.ret = PSA_ERROR_INVALID_ARGUMENT /\ fs = before.fs
        /\ (~last.p_obj.null /\ last.length > ZFS_STORAGE_MAX_ITEM_SIZE) =>
              last.ret = PSA_ERROR_INSUFFICIENT_STORAGE /\ fs = before.fs
        /\ (~last.p_obj.null /\ last.length <= ZFS_STORAGE_MAX_ITEM_SIZE) =>
              \A wrote \in ZmsWriteResults(last.length) :
                 zfs_storage_set(before.fs, last.uid, last.length, last.p_obj, wrote).ret
                    = IF wrote < 0 \/ wrote < last.length THEN PSA_ERROR_IO_ERROR
                      ELSE PSA_SUCCESS
        /\ last.ret = PSA_ERROR_IO_ERROR =>
              \A a \in ZfsGetArgs, junk \in JUNK :
                 zfs_storage_get(fs, last.uid, a.offset, a.length, a.p_obj, junk)
                    = zfs_storage_get(before.fs, last.uid, a.offset, a.length, a.p_obj, junk)

\* the outcomes alone, which the code maps as stated
C14_LogSetReturns ==
    Returned("set") =>
        /\ last.p_obj.null =>
              last.ret = PSA_ERROR_INVALID_ARGUMENT /\ fs = before.fs
        /\ (~last.p_obj.null /\ last.length > ZFS_STORAGE_MAX_ITEM_SIZE) =>
              last.ret = PSA_ERROR_INSUFFICIENT_STORAGE /\ fs = before.fs
        /\ (~last.p_obj.null /\ last.length <= ZFS_STORAGE_MAX_ITEM_SIZE) =>
              /\ last.ret \in {PSA_ERROR_IO_ERROR, PSA_SUCCESS}
              /\ \A wrote \in ZmsWriteResults(last.length) :
                    zfs_storage_set(before.fs, last.uid, last.length, last.p_obj, wrote).ret
                       = IF wrote < 0 \/ wrote < last.length THEN PSA_ERROR_IO_ERROR
                         ELSE PSA_SUCCESS

\* two in-use slots hold the same uid
DuplicateUid(T) ==
    \E i \in SLOTS, j \in SLOTS : i # j /\ T[i].used /\ T[j].used /\ T[i].uid = T[j].uid

\* an object whose set succeeded, and was not removed since, is not retrievable
LostObject(T, objs) ==
    \E uid \in UIDS :
        /\ objs[uid].present
        /\ LET n == Len(objs[uid].data)
               g == storage_get(T, uid, 0, n, OutBuf(n))
           IN  ~(g.ret = PSA_SUCCESS /\ g.out = objs[uid].data)

\* both callers hold the success of a storage_set, and the table is broken
BothSetsBroken ==
    /\ \A c \in CALLERS :
          thread[c].pc = "done" /\ thread[c].op = "set" /\ thread[c].ret = PSA_SUCCESS
    /\ DuplicateUid(storage_table) \/ LostObject(storage_table, objects)

(* C15: concurrent callers of the RAM table.  Without mutual exclusion,    *)
(* two callers running storage_set with their steps interleaved reach a    *)
(* state where both calls returned success and the table is broken: two    *)
(* in-use slots with one uid, or an object set with success that the other *)
(* call overwrote and that is not retrievable (C15_Witness).  With the     *)
(* four entry points serialised under one mutex no such state is reached.  *)
C15_MutexSerialises == mutex.layer => ~BothSetsBroken

\* no mutex, both storage_set calls returned success, the table is broken
C15_Witness == ~mutex.layer /\ BothSetsBroken

\* the two ways the table breaks without the mutex
C15_WitnessDuplicate ==
    ~mutex.layer /\ BothSetsBroken /\ DuplicateUid(storage_table)
C15_WitnessLost ==
    /\ ~mutex.layer /\ BothSetsBroken /\ ~DuplicateUid(storage_table)
    /\ thread[1].uid # thread[2].uid
    /\ \E c \in CALLERS : ~Stored(storage_table, thread[c].uid)

\* with the mutex, two callers did set objects that are both retrievable
C15_WitnessMutex ==
    /\ mutex.layer
    /\ \A c \in CALLERS :
          thread[c].pc = "done" /\ thread[c].op = "set" /\ thread[c].ret = PSA_SUCCESS
    /\ thread[1].uid # thread[2].uid
    /\ \A c \in CALLERS : Stored(storage_table, thread[c].uid)

(* C16: RAM table invariant.  In every state reached from storage_init by  *)
(* sequential storage_set/get/get_info/remove calls, no two in-use slots   *)
(* hold the same uid and every in-use slot has size <= the item size.      *)
C16_TableInvariant ==
    /\ ~DuplicateUid(storage_table)
    /\ \A i \in SLOTS : storage_table[i].used =>
          storage_table[i].size <= STORAGE_MAX_ITEM_SIZE

\* a stored uid was set again, at the full size, and another object is
\* stored beside it
C16_Witness ==
    /\ Returned("set") /\ last.ret = PSA_SUCCESS
    /\ Stored(before.table, last.uid)
    /\ last.length = STORAGE_MAX_ITEM_SIZE
    /\ \E u \in UIDS : u # last.uid /\ Stored(storage_table, u)

\* the slots in use
UsedSlots(T) == {i \in SLOTS : T[i].used}

(* C17: RAM table allocation policy.  A successful storage_set of a stored *)
(* uid rewrites the slot the uid occupied, takes no free slot, and         *)
(* succeeds also when every slot is in use; a successful storage_set of a  *)
(* new uid occupies the lowest-index free slot of the time of the call; no *)
(* set changes the uid, the size or the bytes of a slot of another uid.    *)
C17_AllocationPolicy ==
    Returned("set") =>
        /\ (Stored(before.table, last.uid) /\ ~last.p_obj.null
                /\ last.length <= STORAGE_MAX_ITEM_SIZE) =>
              last.ret = PSA_SUCCESS
        /\ (last.ret = PSA_SUCCESS /\ Stored(before.table, last.uid)) =>
              /\ Stored(storage_table, last.uid)
              /\ SlotOf(storage_table, last.uid) = SlotOf(before.table, last.uid)
              /\ UsedSlots(storage_table) = UsedSlots(before.table)
        /\ (last.ret = PSA_SUCCESS /\ ~Stored(before.table, last.uid)) =>
              /\ Stored(storage_table, last.uid)
              /\ LET i == SlotOf(storage_table, last.uid)
                 IN  /\ ~before.table[i].used
                     /\ \A j \in SLOTS : j < i => before.table[j].used
                     /\ UsedSlots(storage_table) = UsedSlots(before.table) \cup {i}
        /\ \A i \in SLOTS :
              (before.table[i].used /\ before.table[i].uid # last.uid) =>
                  storage_table[i] = before.table[i]
        /\ last.ret # PSA_SUCCESS => storage_table = before.table

\* a new uid went into slot 0, freed by a remove, below a slot still in use
C17_Witness ==
    /\ Returned("set") /\ last.ret = PSA_SUCCESS
    /\ ~Stored(before.table, last.uid)
    /\ ~before.table[0].used
    /\ \E i \in SLOTS : i > 0 /\ before.table[i].used
    /\ storage_table[0].used /\ storage_table[0].uid = last.uid

(* C18: ZMS layer, memory safety of storage_get.  In every successful      *)
(* storage_get(uid, offset, length, out) the range copied out of buf[],    *)
(* length bytes from index sizeof(its_obj_info_t) + offset, lies within    *)
(* buf[] and within the bytes zms_read returned, so that no uninitialised  *)
(* or out-of-buffer byte reaches the caller: what the caller gets does not *)
(* depend on what such bytes hold.  Stated for the windows with            *)
(* offset + length <= sizeof(buf), where the sum of the check at line 108  *)
(* does not wrap.                                                          *)
C18_LogGetMemorySafe ==
    (Returned("get") /\ last.ret = PSA_SUCCESS /\ last.length > 0
        /\ last.offset + last.length <= BUF_SIZE) =>
        LET r == zms_read(before.fs, last.uid, BUF_SIZE)
            end == SIZEOF_ITS_OBJ_INFO + last.offset + last.length
        IN  /\ end <= BUF_SIZE
            /\ end <= r.rc
            /\ \A j1 \in JUNK, j2 \in JUNK :
                  zfs_storage_get(before.fs, last.uid, last.offset, last.length,
                                  last.p_obj, j1).out
                    = zfs_storage_get(before.fs, last.uid, last.offset, last.length,
                                      last.p_obj, j2).out

\* the uids the abstract map holds
Keys(objs) == {uid \in UIDS : objs[uid].present}

(* C19: the RAM table refines a map from uid to bytes of at most           *)
(* STORAGE_MAX_ENTRIES keys (objects: the data of the latest successful    *)
(* set, absent after a successful remove).  After any sequential history a *)
(* uid is retrievable iff it is a key of the map, storage_get(uid, 0,      *)
(* size) returns the data of the map, storage_set of a new uid with valid  *)
(* data and length succeeds iff the map holds fewer than                   *)
(* STORAGE_MAX_ENTRIES keys, and storage_get and storage_get_info never    *)
(* change the map.  Table and map are compared at the return of every set  *)
(* and remove; get and get_info leave both as they were.                   *)
C19_RefinesMap ==
    /\ (Returned("set") \/ Returned("remove")) =>
       /\ Cardinality(Keys(objects)) <= STORAGE_MAX_ENTRIES
       /\ \A uid \in UIDS :
          IF objects[uid].present
          THEN LET n == Len(objects[uid].data)
                   g == storage_get(storage_table, uid, 0, n, OutBuf(n))
               IN  /\ Stored(storage_table, uid)
                   /\ storage_table[SlotOf(storage_table, uid)].size = n
                   /\ g.ret = PSA_SUCCESS
                   /\ g.out = objects[uid].data
          ELSE /\ ~Stored(storage_table, uid)
               /\ storage_get(storage_table, uid, 0, 0, OutBuf(0)).ret
                     = PSA_ERROR_DOES_NOT_EXIST
    /\ (Returned("set") /\ ~before.objects[last.uid].present /\ ~last.p_obj.null
            /\ last.length <= STORAGE_MAX_ITEM_SIZE) =>
          (last.ret = PSA_SUCCESS
              <=> Cardinality(Keys(before.objects)) < STORAGE_MAX_ENTRIES)
    /\ (Returned("get") \/ Returned("get_info")) =>
          objects = before.objects /\ storage_table = before.table

\* an object was set again after its remove, beside another object, and the
\* map holds the new data
C19_Witness ==
    /\ Returned("set") /\ last.ret = PSA_SUCCESS
    /\ ~before.objects[last.uid].present
    /\ \E i \in SLOTS : ~before.table[i].used /\ before.table[i].data[1] = 0
    /\ Cardinality(Keys(objects)) = STORAGE_MAX_ENTRIES
    /\ objects[last.uid].data = last.p_obj.buf

====
